---- MODULE Spec2Model ----
(***************************************************************************)
(* Model of the backtest engine of reports/backtest_runner.py              *)
(* (MomentumBacktester) and of the decision-policy hooks it drives.        *)
(*                                                                         *)
(* Numbers.  The program computes in binary64.  Every amount (cash,        *)
(* quantity, price, size, pnl, equity) is modelled as an integer number of *)
(* units of 10^-FRAC_DIGITS.  Sums and differences of such values are      *)
(* exact; a product or a quotient that does not fall on the grid is        *)
(* rounded to the nearest grid value, ties to even, which is how binary64  *)
(* rounds, at a coarser resolution.  A decimal literal of the source is    *)
(* the nearest grid value (Lit10); a nonzero literal below the resolution  *)
(* of the grid (the tolerances 1e-12) is the smallest grid value of its    *)
(* sign, as it is a nonzero value in binary64.                             *)
(*                                                                         *)
(* Timestamps.  The frame index is strictly increasing; the timestamp of   *)
(* bar i is modelled as i.  Bars are numbered from 0 as in the source, so  *)
(* the close of bar i is closes[i + 1].                                    *)
(***************************************************************************)
EXTENDS Integers, Sequences, FiniteSets, TLC

\* ------------------------------------------------------------------------
\* Bounds of the model
\* ------------------------------------------------------------------------
FRAC_DIGITS == 3
MaxBars == 4

\* ------------------------------------------------------------------------
\* Arithmetic on the grid
\* ------------------------------------------------------------------------
RECURSIVE Pow10(_)
Pow10(n) == IF n = 0 THEN 1 ELSE 10 * Pow10(n - 1)

SCALE == Pow10(FRAC_DIGITS)

ONE == SCALE

Abs(x) == IF x < 0 THEN 0 - x ELSE x

Sign(x) == IF x < 0 THEN 0 - 1 ELSE 1

Min(a, b) == IF a <= b THEN a ELSE b

Max(a, b) == IF a >= b THEN a ELSE b

\* q + r/d (0 <= r < d) rounded to the nearest integer, ties to even
RoundRem(q, r, d) ==
    IF 2 * r < d THEN q
    ELSE IF 2 * r > d THEN q + 1
    ELSE IF q % 2 = 0 THEN q ELSE q + 1

\* the decimal literal m * 10^e (m >= 0) as a grid value; a literal that is
\* not 0 does not become 0
Lit10(m, e) ==
    IF e + FRAC_DIGITS >= 0
    THEN m * Pow10(e + FRAC_DIGITS)
    ELSE LET nearest == RoundRem(m \div Pow10(0 - (e + FRAC_DIGITS)),
                                 m % Pow10(0 - (e + FRAC_DIGITS)),
                                 Pow10(0 - (e + FRAC_DIGITS)))
         IN  IF nearest = 0 /\ m > 0 THEN 1 ELSE nearest

\* a * b for a, b >= 0, by long multiplication so that no intermediate
\* product leaves the integer range
FMulAbs(a, b) ==
    LET ah == a \div SCALE
        al == a % SCALE
        bh == b \div SCALE
        bl == b % SCALE
    IN  RoundRem(ah * bh * SCALE + ah * bl + al * bh + ((al * bl) \div SCALE),
                 (al * bl) % SCALE, SCALE)

\* float multiplication a * b
FMul(a, b) == Sign(a) * Sign(b) * FMulAbs(Abs(a), Abs(b))

\* long division: q is the quotient so far, r the remainder, k digits to go
RECURSIVE DivDigits(_, _, _, _)
DivDigits(q, r, d, k) ==
    IF k = 0 THEN RoundRem(q, r, d)
    ELSE DivDigits(q * 10 + ((r * 10) \div d), (r * 10) % d, d, k - 1)

\* float division a / b (b # 0)
FDiv(a, b) ==
    Sign(a) * Sign(b) * DivDigits(Abs(a) \div Abs(b), Abs(a) % Abs(b), Abs(b), FRAC_DIGITS)

\* ------------------------------------------------------------------------
\* Program constants
\* ------------------------------------------------------------------------
FEE_RATE == Lit10(1, 0 - 3)

EXECUTION_LAG == 1

STARTING_CASH == Lit10(10000, 0)

REQUIRED_HISTORY == 200

\* -math.inf: below every value of the model
NEG_INF == 0 - 2147483647

\* ------------------------------------------------------------------------
\* Inputs
\* ------------------------------------------------------------------------
\* closes a frame may hold (0 is a degenerate, non-positive close)
Prices == {0, Lit10(1, 0), Lit10(2, 0)}

\* sizes a decision may request (0 is a degenerate request)
ReqSizes == {0, Lit10(1, 0), Lit10(2, 4)}

\* Signal(action, size): what a decision policy may return
Signals ==
    {[action |-> "hold", size |-> 0, reason |-> "stub"]}
    \cup {[action |-> a, size |-> s, reason |-> "stub"] : a \in {"buy", "sell"}, s \in ReqSizes}

\* no signal has been returned yet
NoSignal == [action |-> "none", size |-> 0, reason |-> ""]

Frames == UNION {[1..n -> Prices] : n \in 0..MaxBars}

\* ------------------------------------------------------------------------
\* State
\* ------------------------------------------------------------------------
VARIABLES
    closes,          \* frame["Close"], the whole price series
    cash,            \* portfolio.cash
    quantity,        \* portfolio.quantity
    pending_order,   \* <<>> for None, else <<order>>
    lots,            \* open lots, oldest first
    trades,          \* Trade records
    equity,          \* equity samples
    timestamps,      \* timestamps of the equity samples
    on_trade_calls,  \* the calls of strategy.on_trade, in order
    snapshot,        \* <<>>, else <<the MarketSnapshot last given to the policy>>
    seen_portfolio,  \* <<>>, else <<the portfolio last given to the policy>>
    signal,          \* the signal last returned by the policy
    close_buffer,    \* strategy._close_buffer, oldest first
    last_timestamp,  \* strategy._last_timestamp: <<>> for None, else <<ts>>
    pending_side,    \* strategy._pending_side: <<>> for None, else <<side>>
    bars_in_uptrend, \* strategy._bars_in_uptrend
    idx,             \* index of the current bar
    pc,              \* the statement of run() to execute next
    result,          \* <<>>, else <<the BacktestResult returned by run()>>
    args,            \* arguments of the function under test (function specs)
    ret              \* <<>>, else <<its return value>>

vars == <<closes, cash, quantity, pending_order, lots, trades, equity, timestamps,
          on_trade_calls, snapshot, seen_portfolio, signal, close_buffer,
          last_timestamp, pending_side, bars_in_uptrend, idx, pc, result, args, ret>>

ledgerVars == <<cash, quantity, lots, trades, on_trade_calls>>

policyVars == <<snapshot, seen_portfolio, signal>>

strategyVars == <<close_buffer, last_timestamp, pending_side, bars_in_uptrend>>

\* what an execution may write: the ledger and, through on_trade, the
\* strategy's _pending_side
fillVars == <<ledgerVars, pending_side>>

curveVars == <<equity, timestamps>>

callVars == <<args, ret>>

\* Portfolio.value(price)
Value(c, q, price) == c + FMul(q, price)

\* MomentumBacktester.__init__, strategy.prepare() included
Construct(frame) ==
    /\ closes = frame
    /\ cash = STARTING_CASH
    /\ quantity = 0
    /\ pending_order = <<>>
    /\ lots = <<>>
    /\ trades = <<>>
    /\ equity = <<>>
    /\ timestamps = <<>>
    /\ on_trade_calls = <<>>
    /\ snapshot = <<>>
    /\ seen_portfolio = <<>>
    /\ signal = NoSignal
    /\ close_buffer = <<>>
    /\ last_timestamp = <<>>
    /\ pending_side = <<>>
    /\ bars_in_uptrend = 0
    /\ result = <<>>

\* ------------------------------------------------------------------------
\* The decision policy's fill hook
\* ------------------------------------------------------------------------
\* OnTrade that leaves _pending_side as it is
OnTradeKeepsSide(sig, execution_price, execution_size, ts, c, q, ls) ==
    /\ on_trade_calls' = Append(on_trade_calls,
          [signal |-> sig, price |-> execution_price, size |-> execution_size,
           timestamp |-> ts, cash |-> c, quantity |-> q, lots |-> ls])
    /\ pending_side' = pending_side

\* strategy.on_trade(signal, execution_price, execution_size, timestamp),
\* called while the ledger holds (c, q) and the lot queue is ls
OnTrade(sig, execution_price, execution_size, ts, c, q, ls) ==
    /\ on_trade_calls' = Append(on_trade_calls,
          [signal |-> sig, price |-> execution_price, size |-> execution_size,
           timestamp |-> ts, cash |-> c, quantity |-> q, lots |-> ls])
    /\ pending_side' = IF execution_size <= 0 THEN pending_side ELSE <<>>

\* ------------------------------------------------------------------------
\* _realize_pnl
\* ------------------------------------------------------------------------
\* the literal 1e-12 of _realize_pnl
CLOSE_TOL == Lit10(1, 0 - 12)

\* RealizeLoop that goes on consuming after a partially consumed lot
\* (remaining is not reset)
RECURSIVE RealizeLoopNoReset(_, _, _, _, _, _)
RealizeLoopNoReset(ls, k, remaining, pnl, new_lots, exit_price) ==
    IF k > Len(ls) THEN [pnl |-> pnl, lots |-> new_lots]
    ELSE IF remaining <= 0
         THEN RealizeLoopNoReset(ls, k + 1, remaining, pnl, Append(new_lots, ls[k]), exit_price)
    ELSE IF ls[k].size <= remaining + CLOSE_TOL
         THEN RealizeLoopNoReset(ls, k + 1, remaining - ls[k].size,
                                 pnl + FMul(exit_price - ls[k].price, ls[k].size),
                                 new_lots, exit_price)
    ELSE RealizeLoopNoReset(ls, k + 1, remaining,
                            pnl + FMul(exit_price - ls[k].price, remaining),
                            Append(new_lots, [size |-> ls[k].size - remaining, price |-> ls[k].price]),
                            exit_price)

\* the loop of _realize_pnl from lot k on
RECURSIVE RealizeLoop(_, _, _, _, _, _)
RealizeLoop(ls, k, remaining, pnl, new_lots, exit_price) ==
    IF k > Len(ls) THEN [pnl |-> pnl, lots |-> new_lots]
    ELSE IF remaining <= 0
         THEN RealizeLoop(ls, k + 1, remaining, pnl, Append(new_lots, ls[k]), exit_price)
    ELSE IF ls[k].size <= remaining + CLOSE_TOL
         THEN RealizeLoop(ls, k + 1, remaining - ls[k].size,
                          pnl + FMul(exit_price - ls[k].price, ls[k].size),
                          new_lots, exit_price)
    ELSE RealizeLoop(ls, k + 1, 0,
                     pnl + FMul(exit_price - ls[k].price, remaining),
                     Append(new_lots, [size |-> ls[k].size - remaining, price |-> ls[k].price]),
                     exit_price)

\* RealizePnl returning the pnl net of the sell's fee
RealizePnlNetOfFee(ls, size, exit_price) ==
    [pnl |-> RealizeLoop(ls, 1, size, 0, <<>>, exit_price).pnl
             - FMul(FMul(size, exit_price), FEE_RATE),
     lots |-> RealizeLoop(ls, 1, size, 0, <<>>, exit_price).lots]

\* _realize_pnl(size, exit_price) on the lot queue ls: the pnl returned and
\* the lot queue left
RealizePnl(ls, size, exit_price) == RealizeLoop(ls, 1, size, 0, <<>>, exit_price)

\* ------------------------------------------------------------------------
\* _max_drawdown
\* ------------------------------------------------------------------------
\* DrawdownLoop measuring every bar against the first sample instead of the
\* running peak
RECURSIVE DrawdownLoopFirstPeak(_, _, _, _)
DrawdownLoopFirstPeak(eq, k, peak, max_dd) ==
    IF k > Len(eq) THEN max_dd
    ELSE LET peak2 == IF k = 1 THEN Max(peak, eq[k]) ELSE peak
             dd == IF peak2 > 0 THEN FDiv(peak2 - eq[k], peak2) ELSE 0
         IN  DrawdownLoopFirstPeak(eq, k + 1, peak2, Max(max_dd, dd))

\* the loop of _max_drawdown from sample k on
RECURSIVE DrawdownLoop(_, _, _, _)
DrawdownLoop(eq, k, peak, max_dd) ==
    IF k > Len(eq) THEN max_dd
    ELSE LET peak2 == Max(peak, eq[k])
             dd == IF peak2 > 0 THEN FDiv(peak2 - eq[k], peak2) ELSE 0
         IN  DrawdownLoop(eq, k + 1, peak2, Max(max_dd, dd))

MaxDrawdown(eq) == IF eq = <<>> THEN 0 ELSE DrawdownLoop(eq, 1, NEG_INF, 0)

\* ------------------------------------------------------------------------
\* Execution engine
\* ------------------------------------------------------------------------
Min3(a, b, c) == Min(a, Min(b, c))

\* BuySize without the position-fraction cap
BuySizeNoCap(requested, price, c, q) ==
    LET max_affordable == FDiv(c, FMul(price, ONE + FEE_RATE))
    IN  Min(requested, max_affordable)

\* the size a buy executes with: _execute_buy's clamp, for price > 0
BuySize(requested, price, c, q) ==
    LET max_affordable == FDiv(c, FMul(price, ONE + FEE_RATE))
        equity_before == Value(c, q, price)
        max_notional == FMul(equity_before, Lit10(55, 0 - 2))
        size_cap == IF price > 0 THEN FDiv(max_notional, price) ELSE 0
    IN  Min3(requested, max_affordable, size_cap)

\* the size a sell executes with
SellSize(requested, q) == Min(requested, q)

\* ExecuteBuy that debits the cost without the fee
ExecuteBuyNoFee(order, price, ts) ==
    IF order.size <= 0 \/ price <= 0
    THEN UNCHANGED fillVars
    ELSE LET size == BuySize(order.size, price, cash, quantity)
             cost == FMul(size, price)
             new_lots == Append(lots, [size |-> size, price |-> price])
         IN  IF size <= 0
             THEN UNCHANGED fillVars
             ELSE /\ cash' = cash - cost
                  /\ quantity' = quantity + size
                  /\ lots' = new_lots
                  /\ trades' = trades
                  /\ OnTrade(order.signal, price, size, ts,
                             cash - cost, quantity + size, new_lots)

\* _execute_buy(order, price, ts)
ExecuteBuy(order, price, ts) ==
    IF order.size <= 0 \/ price <= 0
    THEN UNCHANGED fillVars
    ELSE LET size == BuySize(order.size, price, cash, quantity)
             cost == FMul(size, price)
             fee == FMul(cost, FEE_RATE)
             total == cost + fee
             new_lots == Append(lots, [size |-> size, price |-> price])
         IN  IF size <= 0
             THEN UNCHANGED fillVars
             ELSE /\ cash' = cash - total
                  /\ quantity' = quantity + size
                  /\ lots' = new_lots
                  /\ trades' = trades
                  /\ OnTrade(order.signal, price, size, ts,
                             cash - total, quantity + size, new_lots)

\* ExecuteSell that notifies the policy before it touches the ledger, and
\* with the requested size
ExecuteSellNotifyFirst(order, price, ts) ==
    LET size == SellSize(order.size, quantity)
        proceeds == FMul(size, price)
        fee == FMul(proceeds, FEE_RATE)
        realized == RealizePnl(lots, size, price)
    IN  IF price <= 0
        THEN UNCHANGED fillVars
        ELSE /\ OnTrade(order.signal, price, order.size, ts, cash, quantity, lots)
             /\ IF size <= 0
                THEN UNCHANGED <<cash, quantity, lots, trades>>
                ELSE /\ cash' = cash + (proceeds - fee)
                     /\ quantity' = quantity - size
                     /\ lots' = realized.lots
                     /\ trades' = Append(trades,
                            [side |-> "sell", size |-> size, price |-> price,
                             timestamp |-> ts, pnl |-> realized.pnl])

\* _execute_sell(order, price, ts)
ExecuteSell(order, price, ts) ==
    LET size == SellSize(order.size, quantity)
        proceeds == FMul(size, price)
        fee == FMul(proceeds, FEE_RATE)
        realized == RealizePnl(lots, size, price)
    IN  IF size <= 0 \/ price <= 0
        THEN UNCHANGED fillVars
        ELSE /\ cash' = cash + (proceeds - fee)
             /\ quantity' = quantity - size
             /\ lots' = realized.lots
             /\ trades' = Append(trades,
                    [side |-> "sell", size |-> size, price |-> price,
                     timestamp |-> ts, pnl |-> realized.pnl])
             /\ OnTrade(order.signal, price, size, ts,
                        cash + (proceeds - fee), quantity - size, realized.lots)

\* MaybeExecutePending executing one bar late: idx <= execute_index returns
MaybeExecutePendingLate(i, price, ts) ==
    IF pending_order = <<>>
    THEN UNCHANGED <<pending_order, fillVars>>
    ELSE IF i <= pending_order[1].execute_index
    THEN UNCHANGED <<pending_order, fillVars>>
    ELSE /\ pending_order' = <<>>
         /\ IF pending_order[1].action = "buy"
            THEN ExecuteBuy(pending_order[1], price, ts)
            ELSE ExecuteSell(pending_order[1], price, ts)

\* _maybe_execute_pending(idx, price, ts)
MaybeExecutePending(i, price, ts) ==
    IF pending_order = <<>>
    THEN UNCHANGED <<pending_order, fillVars>>
    ELSE IF i < pending_order[1].execute_index
    THEN UNCHANGED <<pending_order, fillVars>>
    ELSE /\ pending_order' = <<>>
         /\ IF pending_order[1].action = "buy"
            THEN ExecuteBuy(pending_order[1], price, ts)
            ELSE ExecuteSell(pending_order[1], price, ts)

\* HandleSignal without the check for an order in flight
HandleSignalOverwrite(i, sig) ==
    IF sig.action \notin {"buy", "sell"} \/ sig.size <= 0
    THEN UNCHANGED pending_order
    ELSE pending_order' = <<[action |-> sig.action, size |-> sig.size,
                             execute_index |-> i + EXECUTION_LAG, signal |-> sig]>>

\* _handle_signal(idx, signal, price, ts)
HandleSignal(i, sig) ==
    IF sig.action \notin {"buy", "sell"} \/ sig.size <= 0
    THEN UNCHANGED pending_order
    ELSE IF pending_order # <<>>
    THEN UNCHANGED pending_order
    ELSE pending_order' = <<[action |-> sig.action, size |-> sig.size,
                             execute_index |-> i + EXECUTION_LAG, signal |-> sig]>>

\* ------------------------------------------------------------------------
\* run()
\* ------------------------------------------------------------------------
\* BarSteps with the policy invoked before the due order is executed
BarStepsDecideFirst == <<"decide", "execute", "record">>

\* the statements of the loop body of run(), in program order
BarSteps == <<"execute", "decide", "record">>

StepIndex(step) == CHOOSE k \in 1..Len(BarSteps) : BarSteps[k] = step

\* control leaves the current statement of the loop body
Advance ==
    IF StepIndex(pc) < Len(BarSteps)
    THEN /\ pc' = BarSteps[StepIndex(pc) + 1]
         /\ idx' = idx
    ELSE /\ idx' = idx + 1
         /\ pc' = IF idx + 1 < Len(closes) THEN BarSteps[1] ELSE "finalize"

\* History taking one bar too many: closes[start_idx : idx + 2]
HistoryLookahead(cl, i) ==
    LET start_idx == Max(0, i - REQUIRED_HISTORY + 1)
    IN  SubSeq(cl, start_idx + 1, Min(i + 2, Len(cl)))

\* closes[start_idx : idx + 1], the window of bar i
History(cl, i) ==
    LET start_idx == Max(0, i - REQUIRED_HISTORY + 1)
    IN  SubSeq(cl, start_idx + 1, i + 1)

\* the snapshot of bar idx and strategy.generate_signal(snapshot, portfolio).
\* The policy returns hold, buy(size) or sell(size); which one depends on its
\* own reading of the price history, so any signal may come back
GenerateSignal(sig) ==
    /\ sig \in Signals
    /\ snapshot' = <<[prices |-> History(closes, idx),
                      current_price |-> closes[idx + 1],
                      timestamp |-> idx]>>
    /\ seen_portfolio' = <<[cash |-> cash, quantity |-> quantity]>>
    /\ signal' = sig

\* self._maybe_execute_pending(idx, price, timestamp)
RunExecute ==
    /\ pc = "execute"
    /\ MaybeExecutePending(idx, closes[idx + 1], idx)
    /\ Advance
    /\ UNCHANGED <<closes, policyVars, close_buffer, last_timestamp, bars_in_uptrend,
                   curveVars, result, callVars>>

\* the snapshot, strategy.generate_signal and self._handle_signal
RunDecide ==
    /\ pc = "decide"
    /\ \E sig \in Signals :
          /\ GenerateSignal(sig)
          /\ HandleSignal(idx, sig)
    /\ Advance
    /\ UNCHANGED <<closes, ledgerVars, strategyVars, curveVars, result, callVars>>

\* self.equity.append(...), self.timestamps.append(...)
RunRecord ==
    /\ pc = "record"
    /\ equity' = Append(equity, Value(cash, quantity, closes[idx + 1]))
    /\ timestamps' = Append(timestamps, idx)
    /\ Advance
    /\ UNCHANGED <<closes, ledgerVars, pending_order, policyVars, strategyVars, result,
                   callVars>>

\* BacktestResult(...) of the recorded run
BuildResult(eq, tss, trs) ==
    [final_equity |-> IF eq # <<>> THEN eq[Len(eq)] ELSE STARTING_CASH,
     total_return |-> IF eq # <<>> THEN FDiv(eq[Len(eq)], STARTING_CASH) - ONE ELSE 0,
     max_drawdown |-> MaxDrawdown(eq),
     trades |-> trs,
     equity_curve |-> [values |-> eq, index |-> tss]]

\* RunFinalize that hands the equity samples over to the result and empties
\* the list
RunFinalizeDraining ==
    /\ pc = "finalize"
    /\ result' = <<BuildResult(equity, timestamps, trades)>>
    /\ equity' = <<>>
    /\ pc' = "done"
    /\ UNCHANGED <<closes, ledgerVars, pending_order, policyVars, strategyVars, timestamps,
                   idx, callVars>>

\* result = BacktestResult(...); return result
RunFinalize ==
    /\ pc = "finalize"
    /\ result' = <<BuildResult(equity, timestamps, trades)>>
    /\ pc' = "done"
    /\ UNCHANGED <<closes, ledgerVars, pending_order, policyVars, strategyVars, curveVars,
                   idx, callVars>>

Init ==
    /\ \E frame \in Frames : Construct(frame)
    /\ args = <<>>
    /\ ret = <<>>
    /\ idx = 0
    /\ pc = IF Len(closes) > 0 THEN BarSteps[1] ELSE "finalize"

Next == RunExecute \/ RunDecide \/ RunRecord \/ RunFinalize

Spec == Init /\ [][Next]_vars

\* ------------------------------------------------------------------------
\* The engine's handlers called directly
\* ------------------------------------------------------------------------
\* fills a caller of the handlers lets happen
MaxFills == 2

\* a caller passes a decision to _handle_signal at the current bar
EngineHandleSignal ==
    /\ pc = "calls"
    /\ \E sig \in Signals :
          /\ signal' = sig
          /\ HandleSignal(idx, sig)
    /\ UNCHANGED <<closes, ledgerVars, snapshot, seen_portfolio, strategyVars, curveVars,
                   idx, pc, result, callVars>>

\* a caller calls _maybe_execute_pending at the current bar
EngineExecute ==
    /\ pc = "calls"
    /\ Len(on_trade_calls) < MaxFills
    /\ \E price \in Prices : MaybeExecutePending(idx, price, idx)
    /\ UNCHANGED <<closes, policyVars, close_buffer, last_timestamp, bars_in_uptrend,
                   curveVars, idx, pc, result, callVars>>

\* the caller moves to the next bar
EngineNextBar ==
    /\ pc = "calls"
    /\ idx + 1 < MaxBars
    /\ idx' = idx + 1
    /\ UNCHANGED <<closes, ledgerVars, pending_order, policyVars, strategyVars, curveVars,
                   pc, result, callVars>>

InitEngine ==
    /\ Construct(<<>>)
    /\ args = <<>>
    /\ ret = <<>>
    /\ idx = 0
    /\ pc = "calls"

NextEngine == EngineHandleSignal \/ EngineExecute \/ EngineNextBar

SpecEngine == InitEngine /\ [][NextEngine]_vars

\* ------------------------------------------------------------------------
\* _realize_pnl on any lot queue
\* ------------------------------------------------------------------------
MaxLots == 3

LotSizes == {Lit10(25, 0 - 1), Lit10(5, 0), Lit10(10, 0)}

LotPrices == {Lit10(100, 0), Lit10(110, 0)}

ExitPrices == {Lit10(90, 0), Lit10(120, 0)}

SellSizes == {Lit10(5, 0 - 1), Lit10(5, 0), Lit10(12, 0), Lit10(15, 0), Lit10(25, 0)}

LotQueues ==
    UNION {[1..n -> [size : LotSizes, price : LotPrices]] : n \in 0..MaxLots}

RECURSIVE SumSizes(_, _)
SumSizes(ls, k) == IF k = 0 THEN 0 ELSE SumSizes(ls, k - 1) + ls[k].size

InitPnl ==
    /\ \E ls \in LotQueues, size \in SellSizes, exit_price \in ExitPrices :
          /\ size <= SumSizes(ls, Len(ls))
          /\ lots = ls
          /\ args = <<[lots |-> ls, size |-> size, exit_price |-> exit_price]>>
    /\ closes = <<>>
    /\ cash = STARTING_CASH
    /\ quantity = SumSizes(lots, Len(lots))
    /\ pending_order = <<>>
    /\ trades = <<>>
    /\ equity = <<>>
    /\ timestamps = <<>>
    /\ on_trade_calls = <<>>
    /\ snapshot = <<>>
    /\ seen_portfolio = <<>>
    /\ signal = NoSignal
    /\ close_buffer = <<>>
    /\ last_timestamp = <<>>
    /\ pending_side = <<>>
    /\ bars_in_uptrend = 0
    /\ result = <<>>
    /\ ret = <<>>
    /\ idx = 0
    /\ pc = "call_realize_pnl"

\* pnl = self._realize_pnl(size, exit_price)
CallRealizePnl ==
    /\ pc = "call_realize_pnl"
    /\ lots' = RealizePnl(lots, args[1].size, args[1].exit_price).lots
    /\ ret' = <<RealizePnl(lots, args[1].size, args[1].exit_price).pnl>>
    /\ pc' = "returned"
    /\ UNCHANGED <<closes, cash, quantity, trades, on_trade_calls, pending_order,
                   policyVars, strategyVars, curveVars, idx, result, args>>

SpecPnl == InitPnl /\ [][CallRealizePnl]_vars

\* ------------------------------------------------------------------------
\* _max_drawdown on any equity curve
\* ------------------------------------------------------------------------
MaxCurve == 3

EquityValues == {0 - Lit10(1000, 0), 0, Lit10(5000, 0), Lit10(10000, 0), Lit10(12000, 0)}

Curves == UNION {[1..n -> EquityValues] : n \in 0..MaxCurve}

InitDrawdown ==
    /\ equity \in Curves
    /\ timestamps = [k \in 1..Len(equity) |-> k - 1]
    /\ closes = <<>>
    /\ cash = STARTING_CASH
    /\ quantity = 0
    /\ pending_order = <<>>
    /\ lots = <<>>
    /\ trades = <<>>
    /\ on_trade_calls = <<>>
    /\ snapshot = <<>>
    /\ seen_portfolio = <<>>
    /\ signal = NoSignal
    /\ close_buffer = <<>>
    /\ last_timestamp = <<>>
    /\ pending_side = <<>>
    /\ bars_in_uptrend = 0
    /\ result = <<>>
    /\ args = <<>>
    /\ ret = <<>>
    /\ idx = 0
    /\ pc = "call_max_drawdown"

\* self._max_drawdown()
CallMaxDrawdown ==
    /\ pc = "call_max_drawdown"
    /\ ret' = <<MaxDrawdown(equity)>>
    /\ pc' = "returned"
    /\ UNCHANGED <<closes, ledgerVars, pending_order, policyVars, strategyVars, curveVars,
                   idx, result, args>>

SpecDrawdown == InitDrawdown /\ [][CallMaxDrawdown]_vars

\* ------------------------------------------------------------------------
\* run() under a policy that follows a script
\* ------------------------------------------------------------------------
\* bars a frame may hold after the scenario's four
MaxTail == 1

\* the closes of the worked scenario: 100, 100, 110, 90
ScenarioPrices == <<Lit10(100, 0), Lit10(100, 0), Lit10(110, 0), Lit10(90, 0)>>

TailPrices == {Lit10(90, 0), Lit10(110, 0)}

ScriptFrames ==
    {ScenarioPrices \o tail : tail \in UNION {[1..n -> TailPrices] : n \in 0..MaxTail}}

\* sizes the script asks to buy: below the position cap, at it, above it
ScriptBuys == {Lit10(1, 0), Lit10(55, 0), Lit10(100, 0)}

\* sizes the script asks to sell: short of a whole unit by the closing
\* tolerance, a unit, and more than is ever held
ScriptSells == {Lit10(1, 0) - CLOSE_TOL, Lit10(1, 0), Lit10(2, 4)}

ScriptHold == [action |-> "hold", size |-> 0, reason |-> "script"]

\* a policy that decides a buy at bar 0, a sell at bar 2 and holds otherwise
Scripts ==
    {<<[action |-> "buy", size |-> b, reason |-> "script"],
       ScriptHold,
       [action |-> "sell", size |-> s, reason |-> "script"]>> :
        b \in ScriptBuys, s \in ScriptSells}

\* the decision of the script args[1] at bar i
ScriptSignal(i) == IF i + 1 <= Len(args[1]) THEN args[1][i + 1] ELSE ScriptHold

\* the snapshot, the scripted policy's generate_signal and self._handle_signal
RunDecideScript ==
    /\ pc = "decide"
    /\ snapshot' = <<[prices |-> History(closes, idx),
                      current_price |-> closes[idx + 1],
                      timestamp |-> idx]>>
    /\ seen_portfolio' = <<[cash |-> cash, quantity |-> quantity]>>
    /\ signal' = ScriptSignal(idx)
    /\ HandleSignal(idx, ScriptSignal(idx))
    /\ Advance
    /\ UNCHANGED <<closes, ledgerVars, strategyVars, curveVars, result, callVars>>

InitScript ==
    /\ \E frame \in ScriptFrames : Construct(frame)
    /\ \E script \in Scripts : args = <<script>>
    /\ ret = <<>>
    /\ idx = 0
    /\ pc = BarSteps[1]

NextScript == RunExecute \/ RunDecideScript \/ RunRecord \/ RunFinalize

SpecScript == InitScript /\ [][NextScript]_vars

\* ------------------------------------------------------------------------
\* MomentumRotatorStrategy
\* ------------------------------------------------------------------------
\* the windows of the configuration (short_ma, long_ma, lookback_for_peak),
\* scaled down; the buffer keeps max(long_ma, lookback_for_peak) + 10 closes
\* and the strategy decides nothing on fewer than MIN_HISTORY, so the long
\* windows are not below MIN_HISTORY - 10
ShortMa == 2

LongMa == 14

LookbackForPeak == 14

\* confirmation_bars of the configuration
CONFIRMATION_BARS == 3

\* min(0.55, config max_position_pct)
MAX_POSITION_PCT == Min(Lit10(55, 0 - 2), Lit10(55, 0 - 2))

MAX_DRAWDOWN_EXIT == Lit10(15, 0 - 2)

REBALANCE_THRESHOLD == Lit10(1, 0 - 2)

MIN_TRADE_NOTIONAL == Lit10(200, 0)

\* _EPS
EPS == Lit10(1, 0 - 12)

\* the buffer length below which generate_signal answers "warming_up"
MIN_HISTORY == 24

\* the window of the warm-up momentum test of _in_uptrend
WARMUP_WINDOW == 96

\* maxlen of _close_buffer
MaxWindow == Max(LongMa, LookbackForPeak) + 10

\* deque.append on a deque of maxlen MaxWindow
DequeAppend(buf, x) ==
    IF Len(buf) >= MaxWindow THEN Append(Tail(buf), x) ELSE Append(buf, x)

\* _append_price(close)
AppendPrice(buf, close) == IF close <= 0 THEN buf ELSE DequeAppend(buf, close)

\* for price in prices: self._append_price(price), from price k on
RECURSIVE AppendPrices(_, _, _)
AppendPrices(buf, prices, k) ==
    IF k > Len(prices) THEN buf
    ELSE AppendPrices(AppendPrice(buf, prices[k]), prices, k + 1)

\* _update_buffers(snapshot): the buffer and the last timestamp it leaves
UpdateBuffers(buf, last_ts, snap) ==
    IF buf = <<>> /\ snap.prices # <<>>
    THEN [buffer |-> AppendPrices(buf, snap.prices, 1), last_timestamp |-> <<snap.timestamp>>]
    ELSE IF last_ts # <<>> /\ snap.timestamp <= last_ts[1]
    THEN [buffer |-> buf, last_timestamp |-> last_ts]
    ELSE [buffer |-> AppendPrice(buf, snap.current_price),
          last_timestamp |-> <<snap.timestamp>>]

\* sum of the first k elements
RECURSIVE SumSeq(_, _)
SumSeq(seq, k) == IF k = 0 THEN 0 ELSE SumSeq(seq, k - 1) + seq[k]

\* list(buf)[-n:]
Recent(buf, n) == SubSeq(buf, Max(1, Len(buf) - n + 1), Len(buf))

\* _sma(period)
Sma(buf, period) ==
    IF Len(buf) < period
    THEN IF buf # <<>> THEN FDiv(SumSeq(buf, Len(buf)), Len(buf) * ONE) ELSE 0
    ELSE FDiv(SumSeq(Recent(buf, period), period), period * ONE)

\* the value _in_uptrend() returns
InUptrend(buf) ==
    IF Len(buf) < LongMa
    THEN IF Len(buf) < WARMUP_WINDOW
         THEN FALSE
         ELSE FDiv(Recent(buf, WARMUP_WINDOW)[WARMUP_WINDOW], Recent(buf, WARMUP_WINDOW)[1]) - ONE
                  > Lit10(4, 0 - 2)
    ELSE LET current_price == buf[Len(buf)]
             short == Sma(buf, ShortMa)
             long == Sma(buf, LongMa)
         IN  short > long /\ current_price > short

\* _bars_in_uptrend as _in_uptrend() leaves it
BarsInUptrend(buf, bars) ==
    IF Len(buf) < LongMa THEN bars
    ELSE IF InUptrend(buf) THEN bars + 1 ELSE 0

\* max(recent)
RECURSIVE SeqMax(_, _)
SeqMax(seq, k) == IF k = 1 THEN seq[1] ELSE Max(SeqMax(seq, k - 1), seq[k])

\* _drawdown_exit()
DrawdownExit(buf) ==
    IF Len(buf) < LookbackForPeak THEN FALSE
    ELSE LET current == buf[Len(buf)]
             recent == Recent(buf, LookbackForPeak)
             peak == SeqMax(recent, Len(recent))
         IN  IF Len(buf) >= LongMa /\ current < FMul(Sma(buf, LongMa), Lit10(95, 0 - 2))
             THEN TRUE
             ELSE IF peak <= 0 THEN FALSE
             ELSE FDiv(peak - current, peak) >= MAX_DRAWDOWN_EXIT

\* Signal("hold", reason=...)
Hold(reason) == [action |-> "hold", size |-> 0, reason |-> reason]

\* generate_signal(market, portfolio) once the buffer is updated to buf, for
\* _pending_side = side, _bars_in_uptrend = bars and the portfolio (c, q):
\* the signal returned and the two fields as the call leaves them
Decide(buf, side, bars, c, q) ==
    IF Len(buf) < MIN_HISTORY
    THEN [signal |-> Hold("warming_up"), pending_side |-> side, bars_in_uptrend |-> bars]
    ELSE IF side # <<>>
    THEN [signal |-> Hold("await_fill"), pending_side |-> side, bars_in_uptrend |-> bars]
    ELSE LET price == buf[Len(buf)]
             equity_now == Max(Value(c, q, price), EPS)
             current_notional == FMul(q, price)
             current_pct == FDiv(current_notional, equity_now)
             target_pct == IF InUptrend(buf) THEN MAX_POSITION_PCT
                           ELSE IF q > EPS
                           THEN IF DrawdownExit(buf) THEN 0 ELSE MAX_POSITION_PCT
                           ELSE 0
             bars_after == BarsInUptrend(buf, bars)
             diff_pct == target_pct - current_pct
             trade_notional == FMul(Abs(diff_pct), equity_now)
             wanted == FDiv(trade_notional, Max(price, EPS))
             affordable == FDiv(c, Max(price, EPS))
             buy_size == Min(wanted, affordable)
             sell_size == Min(wanted, q)
         IN  IF Abs(diff_pct) < REBALANCE_THRESHOLD
             THEN [signal |-> Hold("within_band"), pending_side |-> side,
                   bars_in_uptrend |-> bars_after]
             ELSE IF trade_notional < MIN_TRADE_NOTIONAL
             THEN [signal |-> Hold("notional_floor"), pending_side |-> side,
                   bars_in_uptrend |-> bars_after]
             ELSE IF diff_pct > 0
             THEN IF buy_size <= EPS
                  THEN [signal |-> Hold("insufficient_cash"), pending_side |-> side,
                        bars_in_uptrend |-> bars_after]
                  ELSE [signal |-> [action |-> "buy", size |-> buy_size,
                                    reason |-> "uptrend_entry"],
                        pending_side |-> <<"buy">>, bars_in_uptrend |-> bars_after]
             ELSE IF sell_size <= EPS
                  THEN [signal |-> Hold("no_position"), pending_side |-> side,
                        bars_in_uptrend |-> bars_after]
                  ELSE [signal |-> [action |-> "sell", size |-> sell_size,
                                    reason |-> "trend_exit"],
                        pending_side |-> <<"sell">>, bars_in_uptrend |-> bars_after]

\* ------------------------------------------------------------------------
\* run() with MomentumRotatorStrategy as the policy
\* ------------------------------------------------------------------------
\* the snapshot of bar idx, strategy.generate_signal and self._handle_signal
RunDecideStrategy ==
    /\ pc = "decide"
    /\ LET snap == [prices |-> History(closes, idx),
                    current_price |-> closes[idx + 1],
                    timestamp |-> idx]
           updated == UpdateBuffers(close_buffer, last_timestamp, snap)
           decision == Decide(updated.buffer, pending_side, bars_in_uptrend, cash, quantity)
       IN  /\ snapshot' = <<snap>>
           /\ seen_portfolio' = <<[cash |-> cash, quantity |-> quantity]>>
           /\ close_buffer' = updated.buffer
           /\ last_timestamp' = updated.last_timestamp
           /\ pending_side' = decision.pending_side
           /\ bars_in_uptrend' = decision.bars_in_uptrend
           /\ signal' = decision.signal
           /\ HandleSignal(idx, decision.signal)
    /\ Advance
    /\ UNCHANGED <<closes, ledgerVars, curveVars, result, callVars>>

\* a flat stretch that brings the strategy to the end of its warm-up
WarmUp == [k \in 1..(MIN_HISTORY - 1) |-> Lit10(1, 0)]

\* frames long enough for the strategy to trade, and frames too short for it
StrategyFrames == {WarmUp \o tail : tail \in Frames} \cup Frames

InitStrategy ==
    /\ \E frame \in StrategyFrames : Construct(frame)
    /\ args = <<>>
    /\ ret = <<>>
    /\ idx = 0
    /\ pc = IF Len(closes) > 0 THEN BarSteps[1] ELSE "finalize"

NextStrategy == RunExecute \/ RunDecideStrategy \/ RunRecord \/ RunFinalize

SpecStrategy == InitStrategy /\ [][NextStrategy]_vars

\* ------------------------------------------------------------------------
\* run() invoked a second time on the same backtester
\* ------------------------------------------------------------------------
\* the caller keeps the result of the first run() in ret and calls run()
\* again: enumerate starts over at bar 0, nothing else is assigned
RunAgain ==
    /\ pc = "done"
    /\ ret = <<>>
    /\ ret' = result
    /\ result' = <<>>
    /\ idx' = 0
    /\ pc' = IF Len(closes) > 0 THEN BarSteps[1] ELSE "finalize"
    /\ UNCHANGED <<closes, ledgerVars, pending_order, policyVars, strategyVars, curveVars,
                   args>>

NextRerun == NextStrategy \/ RunAgain

SpecRerun == InitStrategy /\ [][NextRerun]_vars

\* ------------------------------------------------------------------------
\* the result built a second time from a completed run
\* ------------------------------------------------------------------------
\* the statements of run() after the loop, executed once more on the
\* completed run; the caller keeps the first result in ret
Refinalize ==
    /\ pc = "done"
    /\ ret = <<>>
    /\ ret' = result
    /\ result' = <<BuildResult(equity, timestamps, trades)>>
    /\ UNCHANGED <<closes, ledgerVars, pending_order, policyVars, strategyVars, curveVars,
                   idx, pc, args>>

NextFinalize == NextScript \/ Refinalize

SpecFinalize == InitScript /\ [][NextFinalize]_vars

\* ------------------------------------------------------------------------
\* Claims
\* ------------------------------------------------------------------------
Last(seq) == seq[Len(seq)]

\* the step takes the pending order out of the queue
Dequeued == pending_order # <<>> /\ pending_order' = <<>>

\* the step executes an order: strategy.on_trade is called once more
Filled == Len(on_trade_calls') = Len(on_trade_calls) + 1

\* the step leaves portfolio, lots and trades as they are
LedgerKept == UNCHANGED <<cash, quantity, lots, trades>>

\* C1: the window given to the policy at bar i holds only closes of bars
\* <= i, in bar order, ending with the close of bar i, which is also
\* current_price; it never holds the close of a later bar
C1_Causality ==
    snapshot # <<>> =>
        LET i == snapshot[1].timestamp
            n == Len(snapshot[1].prices)
        IN  /\ i \in 0..(Len(closes) - 1)
            /\ (pc = "record" => i = idx)
            /\ n >= 1
            /\ n <= i + 1
            /\ \A k \in 1..n : snapshot[1].prices[k] = closes[i + 1 - n + k]
            /\ snapshot[1].current_price = closes[i + 1]

\* the policy has been given the window of a bar whose successor has another close
C1_Witness ==
    /\ snapshot # <<>>
    /\ snapshot[1].timestamp >= 1
    /\ snapshot[1].timestamp + 2 <= Len(closes)
    /\ closes[snapshot[1].timestamp + 2] # closes[snapshot[1].timestamp + 1]

\* C2: while an order is pending, a decision passed to _handle_signal leaves
\* the pending order, the portfolio, the lots and the trades unchanged, and
\* there is never more than one pending order
C2_OneInFlight ==
    /\ [](Len(pending_order) <= 1)
    /\ [][(EngineHandleSignal /\ pending_order # <<>>)
            => UNCHANGED <<pending_order, cash, quantity, lots, trades>>]_vars

\* a buy/sell decision of positive size was passed while another order was
\* pending, before that order's execution bar
C2_Witness ==
    /\ pending_order # <<>>
    /\ idx < pending_order[1].execute_index
    /\ signal.action \in {"buy", "sell"}
    /\ signal.size > 0
    /\ signal # pending_order[1].signal

\* C3: an order enqueued at bar i carries execute_index i + EXECUTION_LAG,
\* leaves the queue at that bar and no other, is applied (if at all) once and
\* at that bar's close; an order still queued when the series ends changes
\* nothing
C3_ExecutionTiming ==
    /\ [](pending_order # <<>> /\ pc \in {"decide", "record"}
            => pending_order[1].execute_index > idx)
    /\ [][/\ (pending_order = <<>> /\ pending_order' # <<>>)
               => pending_order'[1].execute_index = idx + EXECUTION_LAG
          /\ (pending_order # <<>> /\ pending_order' # pending_order)
               => /\ pending_order' = <<>>
                  /\ idx = pending_order[1].execute_index
          /\ (~LedgerKept \/ on_trade_calls' # on_trade_calls)
               => /\ Dequeued
                  /\ Filled
                  /\ Last(on_trade_calls').price = closes[pending_order[1].execute_index + 1]
                  /\ Last(on_trade_calls').timestamp = pending_order[1].execute_index
                  /\ IF pending_order[1].action = "buy"
                     THEN /\ Len(lots') = Len(lots) + 1
                          /\ Last(lots').price = closes[pending_order[1].execute_index + 1]
                     ELSE /\ Len(trades') = Len(trades) + 1
                          /\ Last(trades').price = closes[pending_order[1].execute_index + 1]
          /\ idx >= Len(closes)
               => UNCHANGED <<ledgerVars, pending_order, curveVars>>]_vars

\* a run has ended with one order executed and a later one still queued
C3_Witness ==
    /\ pc = "done"
    /\ pending_order # <<>>
    /\ on_trade_calls # <<>>
    /\ result[1].trades = trades

\* C4: in every bar the due order is executed first, then the policy is
\* invoked, then equity is recorded: the policy sees the portfolio after the
\* bar's fill, one sample is appended per bar, and the sample of bar i is
\* cash + quantity * price[i] after all mutations of bar i
C4_StepOrder ==
    /\ [](/\ Len(equity) = idx
          /\ Len(timestamps) = idx
          /\ \A k \in 1..Len(timestamps) : timestamps[k] = k - 1)
    /\ [](idx >= 1 /\ pc \in {"execute", "finalize", "done"}
            => equity[idx] = cash + FMul(quantity, closes[idx]))
    /\ [][/\ Len(equity') # Len(equity)
               => /\ equity' = Append(equity, cash + FMul(quantity, closes[idx + 1]))
                  /\ LedgerKept
                  /\ snapshot # <<>>
                  /\ snapshot[1].timestamp = idx
                  /\ seen_portfolio = <<[cash |-> cash, quantity |-> quantity]>>
                  /\ (pending_order # <<>> => pending_order[1].execute_index > idx)
          /\ ~LedgerKept => Len(equity) = idx]_vars

\* an order was filled in the bar just recorded, and the policy saw the
\* portfolio the fill left
C4_Witness ==
    /\ pc = "execute"
    /\ idx >= 2
    /\ on_trade_calls # <<>>
    /\ Last(on_trade_calls).timestamp = idx - 1
    /\ seen_portfolio = <<[cash |-> cash, quantity |-> quantity]>>
    /\ quantity > 0
    /\ equity[idx] # equity[idx - 1]

\* what a sell of size s takes from lot k of ls, oldest lot first
Consumed(ls, s, k) == Max(0, Min(ls[k].size, s - SumSizes(ls, k - 1)))

RECURSIVE FifoPnl(_, _, _, _)
FifoPnl(ls, s, exit_price, k) ==
    IF k = 0 THEN 0
    ELSE FifoPnl(ls, s, exit_price, k - 1)
         + FMul(exit_price - ls[k].price, Consumed(ls, s, k))

\* the lots a sell of size s leaves: every lot less what was taken from it,
\* those with nothing left removed
FifoLots(ls, s) ==
    SelectSeq([k \in 1..Len(ls) |->
                  [size |-> ls[k].size - Consumed(ls, s, k), price |-> ls[k].price]],
              LAMBDA lot : lot.size > 0)

SetMax(S) == CHOOSE x \in S : \A y \in S : y <= x

\* the highest of the first i samples
PeakAt(eq, i) == SetMax({eq[j] : j \in 1..i})

\* the drawdown of sample i against the highest sample so far
DrawdownAt(eq, i) ==
    IF PeakAt(eq, i) > 0 THEN FDiv(PeakAt(eq, i) - eq[i], PeakAt(eq, i)) ELSE 0

\* C6: _max_drawdown() is the maximum over i of
\* (max(equity[0..i]) - equity[i]) / max(equity[0..i]), a bar counting 0 when
\* its running peak is not positive, and 0 for an empty curve
C6_MaxDrawdown ==
    pc = "returned" /\ args = <<>> =>
        ret = <<IF equity = <<>> THEN 0
                ELSE SetMax({DrawdownAt(equity, i) : i \in 1..Len(equity)})>>

\* a curve that fell, made a new peak and fell further from it
C6_Witness ==
    /\ pc = "returned"
    /\ args = <<>>
    /\ Len(equity) = 3
    /\ equity[1] < equity[2]
    /\ equity[3] < equity[1]
    /\ equity[3] > 0
    /\ ret # <<0>>

\* the step executes a buy
BuyFilled == Filled /\ Last(on_trade_calls').signal.action = "buy"

\* the step executes a sell
SellFilled == Filled /\ Last(on_trade_calls').signal.action = "sell"

\* C7: an executed buy of size S at price P takes S*P*(1+FEE_RATE) from
\* cash, adds S to quantity, appends the lot (S, P) and adds no trade
C7_BuyFeeConservation ==
    [][BuyFilled =>
        LET S == Last(on_trade_calls').size
            P == Last(on_trade_calls').price
        IN  /\ S > 0
            /\ P = closes[idx + 1]
            /\ cash - cash' = FMul(FMul(S, P), ONE + FEE_RATE)
            /\ quantity' - quantity = S
            /\ lots' = Append(lots, [size |-> S, price |-> P])
            /\ trades' = trades]_vars

\* a buy was executed on top of an open position, with a fee that is not a
\* whole number of units
C7_Witness ==
    /\ on_trade_calls # <<>>
    /\ Last(on_trade_calls).signal.action = "buy"
    /\ Len(lots) >= 2
    /\ Last(lots).size = Last(on_trade_calls).size
    /\ FMul(FMul(Last(lots).size, Last(lots).price), FEE_RATE) % SCALE # 0

\* C8: a buy executes with the minimum of the requested size,
\* cash / (price * (1 + FEE_RATE)) and 0.55 * equity / price; a sell with the
\* minimum of the requested size and the held quantity; never with more than
\* was requested
C8_Clamping ==
    [][/\ BuyFilled =>
            LET P == closes[idx + 1]
                equity_before == cash + FMul(quantity, P)
            IN  /\ pending_order # <<>>
                /\ Last(on_trade_calls').size =
                      Min3(pending_order[1].size,
                           FDiv(cash, FMul(P, ONE + FEE_RATE)),
                           FDiv(FMul(equity_before, Lit10(55, 0 - 2)), P))
                /\ Last(on_trade_calls').size <= pending_order[1].size
                /\ quantity' = quantity + Last(on_trade_calls').size
       /\ SellFilled =>
            /\ pending_order # <<>>
            /\ Last(on_trade_calls').size = Min(pending_order[1].size, quantity)
            /\ Last(on_trade_calls').size <= pending_order[1].size
            /\ quantity' = quantity - Last(on_trade_calls').size]_vars

\* a buy cut down by the affordability cap, a buy cut down by the
\* position cap, a buy executed as requested and a sell cut down to the
\* held quantity have all happened
C8_Witness ==
    /\ \E k \in 1..Len(on_trade_calls) :
          /\ on_trade_calls[k].signal.action = "buy"
          /\ on_trade_calls[k].size < on_trade_calls[k].signal.size
          /\ on_trade_calls[k].cash <= 1
    /\ \E k \in 1..Len(on_trade_calls) :
          /\ on_trade_calls[k].signal.action = "buy"
          /\ on_trade_calls[k].size < on_trade_calls[k].signal.size
          /\ on_trade_calls[k].cash > STARTING_CASH \div 4
    /\ \E k \in 1..Len(on_trade_calls) :
          /\ on_trade_calls[k].signal.action = "sell"
          /\ on_trade_calls[k].size < on_trade_calls[k].signal.size

\* C9: in every reachable state of a run, whatever the prices and the
\* decisions, portfolio.cash >= 0 and portfolio.quantity >= 0
C9_NonNegative == cash >= 0 /\ quantity >= 0

\* C10: on_trade is called once for every order that executes, after the
\* ledger and the lots have been updated, with the execution price and the
\* executed size; it is not called for an order that is discarded, nor for
\* one still queued when the run ends
C10_FillCallback ==
    [][/\ on_trade_calls' # on_trade_calls => Dequeued /\ Filled
       /\ (Dequeued /\ ~LedgerKept) => Filled
       /\ (Dequeued /\ LedgerKept) => on_trade_calls' = on_trade_calls
       /\ Filled =>
            LET call == Last(on_trade_calls')
            IN  /\ call.signal = pending_order[1].signal
                /\ call.price = closes[idx + 1]
                /\ call.timestamp = idx
                /\ call.size > 0
                /\ call.size = Abs(quantity' - quantity)
                /\ call.cash = cash'
                /\ call.quantity = quantity'
                /\ call.lots = lots'
                /\ ~LedgerKept
       /\ idx >= Len(closes) => on_trade_calls' = on_trade_calls]_vars

\* a run has ended in which a buy and a sell were filled, the sell for less
\* than requested, and an order is still queued
C10_Witness ==
    /\ pc = "done"
    /\ pending_order # <<>>
    /\ Len(on_trade_calls) = 2
    /\ on_trade_calls[1].signal.action = "buy"
    /\ on_trade_calls[2].signal.action = "sell"
    /\ on_trade_calls[2].size < on_trade_calls[2].signal.size
    /\ Len(trades) = 1

\* the scripted run sold all it held: the buy of bar 1 and the sell of bar 3
\* were both filled and nothing is left
FullExit ==
    /\ Len(on_trade_calls) = 2
    /\ on_trade_calls[1].signal.action = "buy"
    /\ on_trade_calls[2].signal.action = "sell"
    /\ on_trade_calls[2].size = on_trade_calls[1].size

\* C11 as stated: in the scenario 100, 100, 110, 90 with a buy decided at
\* bar 0 and a full exit decided at bar 2, the pnl recorded in the sell's
\* Trade is size * (90 - 100) minus the fees (the sell's fee, or the fees of
\* both fills)
C11_PnlNetOfFees ==
    FullExit =>
        LET size == trades[1].size
            gross == FMul(size, closes[4] - closes[2])
            buy_fee == FMul(FMul(size, closes[2]), FEE_RATE)
            sell_fee == FMul(FMul(size, closes[4]), FEE_RATE)
        IN  trades[1].pnl \in {gross - sell_fee, gross - (buy_fee + sell_fee)}

\* C11, amended: in that scenario the buy fills at bar 1's close 100 and
\* opens the lot (size, 100), the sell fills at bar 3's close 90, and the
\* pnl recorded in the sell's Trade is size * (90 - 100) with no fee taken
\* off; the fees of both fills are charged to cash only
C11_PnlGross ==
    /\ on_trade_calls # <<>> =>
          /\ on_trade_calls[1].signal.action = "buy"
          /\ on_trade_calls[1].timestamp = 1
          /\ on_trade_calls[1].price = Lit10(100, 0)
          /\ on_trade_calls[1].lots =
                <<[size |-> on_trade_calls[1].size, price |-> Lit10(100, 0)]>>
    /\ FullExit =>
          LET size == on_trade_calls[1].size
              cost == FMul(size, Lit10(100, 0))
              proceeds == FMul(size, Lit10(90, 0))
          IN  /\ Len(trades) = 1
              /\ trades[1].timestamp = 3
              /\ trades[1].price = Lit10(90, 0)
              /\ trades[1].size = size
              /\ trades[1].pnl = FMul(size, Lit10(90, 0) - Lit10(100, 0))
              /\ trades[1].pnl < 0
              /\ cash = STARTING_CASH - (cost + FMul(cost, FEE_RATE))
                                      + (proceeds - FMul(proceeds, FEE_RATE))
              /\ lots = <<>>
              /\ quantity = 0

\* the scenario has run to its end with a full exit of a position that was
\* cut down to the position cap
C11_Witness ==
    /\ pc = "done"
    /\ FullExit
    /\ on_trade_calls[1].size = Lit10(55, 0)
    /\ on_trade_calls[1].signal.size > Lit10(55, 0)
    /\ result[1].trades = trades

\* the step takes the pending order out of the queue and drops it
Discarded == Dequeued /\ on_trade_calls' = on_trade_calls

\* C12: when the order due at a bar is discarded (price <= 0, or size <= 0
\* after clamping), portfolio, lots and trades stay as they are, the engine
\* is idle again and the strategy is not left waiting for a fill: asked
\* while the engine is idle, it never answers hold 'await_fill'
C12_DiscardRecovery ==
    [][/\ Discarded => (LedgerKept /\ pending_order' = <<>> /\ pending_side' = <<>>)
       /\ (pc = "decide" /\ pending_order = <<>>) => signal'.reason # "await_fill"]_vars

\* the uptrend test of _in_uptrend held on each of the last n buffers
UptrendRun(buf, n) ==
    \A j \in 0..(n - 1) :
        /\ Len(buf) - j >= LongMa
        /\ LET earlier == SubSeq(buf, 1, Len(buf) - j)
           IN  /\ Sma(earlier, ShortMa) > Sma(earlier, LongMa)
               /\ earlier[Len(earlier)] > Sma(earlier, ShortMa)

\* C16: a buy 'uptrend_entry' from a flat position is emitted only after the
\* uptrend condition has held on CONFIRMATION_BARS consecutive evaluated
\* bars, the bar of the decision included
C16_EntryConfirmation ==
    (pc = "record" /\ signal.action = "buy" /\ signal.reason = "uptrend_entry"
     /\ quantity = 0)
        => /\ bars_in_uptrend >= CONFIRMATION_BARS
           /\ UptrendRun(close_buffer, CONFIRMATION_BARS)

\* every close of the frame is strictly positive
PositiveSeries == \A k \in 1..Len(closes) : closes[k] > 0

\* C20: on a series of strictly positive closes every order the strategy
\* emits executes with a size > 0 at its execution bar and on_trade clears
\* _pending_side, so _pending_side is set exactly while the backtester holds
\* the pending order of that side, and the strategy never answers hold
\* 'await_fill'
C20_Handshake ==
    /\ [](PositiveSeries =>
            /\ signal.reason # "await_fill"
            /\ (pending_side # <<>> <=> pending_order # <<>>)
            /\ (pending_order # <<>> => pending_side = <<pending_order[1].action>>))
    /\ [][(PositiveSeries /\ Dequeued) =>
            /\ Filled
            /\ Last(on_trade_calls').size > 0
            /\ Last(on_trade_calls').signal = pending_order[1].signal
            /\ pending_side' = <<>>]_vars

\* a run on positive closes has ended in which the strategy's entry and its
\* exit were both filled and the strategy decided again afterwards
C20_Witness ==
    /\ pc = "done"
    /\ PositiveSeries
    /\ Len(on_trade_calls) >= 2
    /\ on_trade_calls[1].signal.reason = "uptrend_entry"
    /\ on_trade_calls[2].signal.reason = "trend_exit"
    /\ Last(on_trade_calls).timestamp < idx - 1
    /\ pending_side = <<>>

\* C13: run() starts with the policy reset, so a second run() on the same
\* backtester starts from cleared policy state, the initial portfolio and
\* empty queue, lots, trades and equity curve, and returns a result equal to
\* the first
C13_NoCrossRunLeakage ==
    /\ [][(pc = "done" /\ pc' # "done") =>
            /\ close_buffer' = <<>>
            /\ last_timestamp' = <<>>
            /\ pending_side' = <<>>
            /\ bars_in_uptrend' = 0
            /\ cash' = STARTING_CASH
            /\ quantity' = 0
            /\ pending_order' = <<>>
            /\ lots' = <<>>
            /\ trades' = <<>>
            /\ equity' = <<>>
            /\ timestamps' = <<>>]_vars
    /\ [](pc = "done" /\ ret # <<>> => result = ret)

\* the state a finalization reads and must leave alone
finalizedVars == <<cash, quantity, lots, trades, equity, timestamps, pending_order>>

\* C14: building the result of a completed run changes neither portfolio,
\* lots, trades, equity samples nor the pending order, and building it a
\* second time gives the same final_equity, total_return, max_drawdown,
\* trades and equity curve
C14_FinalizeIdempotent ==
    /\ [][(pc \in {"finalize", "done"}) => UNCHANGED finalizedVars]_vars
    /\ [](pc = "done" /\ ret # <<>> =>
            /\ result[1].final_equity = ret[1].final_equity
            /\ result[1].total_return = ret[1].total_return
            /\ result[1].max_drawdown = ret[1].max_drawdown
            /\ result[1].trades = ret[1].trades
            /\ result[1].equity_curve = ret[1].equity_curve)

\* the result of a run with a losing trade and a drawdown has been built
\* twice
C14_Witness ==
    /\ pc = "done"
    /\ ret # <<>>
    /\ result # <<>>
    /\ Len(result[1].trades) = 1
    /\ result[1].max_drawdown > 0
    /\ result[1].final_equity < STARTING_CASH
    /\ Len(result[1].equity_curve.values) = Len(closes)

\* C15: run() on an empty price series ends with an error: it returns no
\* BacktestResult
C15_EmptyFailsFast == closes = <<>> => result = <<>>

\* C17 as stated: right after an executed buy the whole position, valued at
\* the execution price, is at most 55% of the equity measured at that price
\* just before the buy
C17_PositionCeiling ==
    [][BuyFilled =>
        FMul(quantity', closes[idx + 1])
            <= FMul(cash + FMul(quantity, closes[idx + 1]), Lit10(55, 0 - 2))]_vars

\* C17, amended: the size of every executed buy is at most
\* 0.55 * equity_before / price, equity_before being cash + quantity * price
\* just before the buy: the cap bounds what one buy adds, not the position
\* it adds to
C17_BuyCeiling ==
    [][BuyFilled =>
        quantity' - quantity
            <= FDiv(FMul(cash + FMul(quantity, closes[idx + 1]), Lit10(55, 0 - 2)),
                    closes[idx + 1])]_vars

\* a buy was executed at the cap on top of an open position, and the
\* position is now worth more than 55% of the equity
C17_Witness ==
    /\ Len(lots) >= 2
    /\ on_trade_calls # <<>>
    /\ Last(on_trade_calls).signal.action = "buy"
    /\ Last(on_trade_calls).size < Last(on_trade_calls).signal.size
    /\ Last(on_trade_calls).cash > 1
    /\ FMul(quantity, Last(on_trade_calls).price)
          > FMul(cash + FMul(quantity, Last(on_trade_calls).price), Lit10(55, 0 - 2))

\* C18: between the bars of a run the lot sizes add up to portfolio.quantity
\* (up to the closing tolerance), every lot has a size > 0, and the lot
\* queue is empty exactly when the quantity is 0
C18_LotLedger ==
    /\ Abs(SumSizes(lots, Len(lots)) - quantity) <= CLOSE_TOL
    /\ \A k \in 1..Len(lots) : lots[k].size > 0
    /\ (lots = <<>> <=> quantity = 0)

\* C19: with EXECUTION_LAG = 1 the order due at a bar has left the queue
\* before the policy is invoked, so pending_order is None at every call of
\* _handle_signal and every buy/sell decision of size > 0 is enqueued, none
\* dropped by the one-in-flight check
C19_IdleAtDecision ==
    /\ [](pc = "decide" => pending_order = <<>>)
    /\ [][(pc = "decide" /\ signal'.action \in {"buy", "sell"} /\ signal'.size > 0)
            => pending_order' = <<[action |-> signal'.action, size |-> signal'.size,
                                   execute_index |-> idx + EXECUTION_LAG,
                                   signal |-> signal']>>]_vars

\* the policy is asked at a bar whose due order was filled, and at the bar
\* before it had decided that order, and it now decides another one
C19_Witness ==
    /\ pc = "record"
    /\ idx >= 2
    /\ on_trade_calls # <<>>
    /\ Last(on_trade_calls).timestamp = idx
    /\ pending_order # <<>>
    /\ pending_order[1].execute_index = idx + 1
    /\ pending_order[1].signal # Last(on_trade_calls).signal

====
